---- MODULE Spec2Model ----
(***************************************************************************)
(* A model of the Aruba license monitor (src/app.py): the advisory-lock    *)
(* singleton (acquire_polling_lock / release_polling_lock), the background *)
(* polling worker and its restart through save_config_api, the alert      *)
(* evaluator check_license_alerts and the poll cycle / manual refresh.     *)
(*                                                                         *)
(* The specifications share the variables:                                 *)
(*   Spec       the scheduler of NumProcs application processes on one host*)
(*   FairSpec   Spec with threads that keep running and joins that return  *)
(*   SpecLock   independent contexts that only acquire and release the lock*)
(*   SpecEval   one run of check_license_alerts over an arbitrary snapshot *)
(*   SpecPoll   one worker's poll cycles next to manual refreshes          *)
(*   SpecCycle  one worker's iterations statement by statement, next to    *)
(*              save_config_api replacing the configuration                *)
(*   SpecNotify the send sites and the NotificationManager                 *)
(*   SpecRules  save_alert_settings and save_config_api on the rule mapping*)
(*   SpecRegistry  Spec seen from one process, the others only booting     *)
(*              and running their first poller                             *)
(*   SpecSend   one call of send_email or send_syslog                      *)
(*   SpecLoop   the iterations of SpecCycle with the run flag, fair        *)
(*   SpecEntry  check_license_alerts as called by the poll cycle and by    *)
(*              refresh_license                                            *)
(***************************************************************************)
EXTENDS Integers, Sequences, FiniteSets, TLC

\* ------------------------------------------------------------------ bounds
NumProcs == 2
\* polling threads one process may create (caps the number of starts)
MaxThreads == 2
\* acquire/release rounds of one context in SpecLock
MaxRounds == 2
\* get_license_usage calls in one run of SpecPoll
MaxFetches == 3
\* iterations of the worker in one run of SpecCycle
MaxCycles == 2
\* configuration objects save_config_api creates in one run of SpecCycle
MaxVersions == 2

Procs == 1..NumProcs
Workers == Procs \X (1..MaxThreads)
\* inode numbers: every context may keep one file open, one more may be linked
Inodes == 1..(NumProcs * MaxThreads + 1)
NoFile == 0
None == <<>>

VARIABLES
    \* --- the host's file system, as far as lock_file_path is concerned
    lockPath,        \* inode linked at lock_file_path, NoFile when the path does not exist
    flock,           \* inode -> the context whose open file holds LOCK_EX on it, or None
    fd,              \* context -> inode its lock_file object has open, or NoFile
    fileText,        \* inode -> pid written in the file, 0 when the file is empty
    \* --- per process module globals of app.py
    polling_active,  \* proc -> BOOLEAN
    polling_thread,  \* proc -> index of the thread object last started, 0 for None
    active_threads,  \* proc -> set of thread idents
    controller_ip,   \* proc -> BOOLEAN: config_data.get('controller_ip') is truthy
    \* --- control state
    pc,              \* context -> position in polling_worker (or in the SpecLock program)
    req,             \* proc -> position of the save_config_api request being handled
    booted,          \* proc -> BOOLEAN: the process has run its start-up code
    rounds,          \* context -> acquire and release calls begun at rest (SpecLock)
    wasRunning,      \* proc -> BOOLEAN: the last save_config_api found a loop running
    \* --- one run of check_license_alerts (SpecEval)
    alert_settings,  \* config_data['alert_settings']: hostname -> rule, None when absent
    evStatus,        \* "start", "pools", "rows", "returned" or "aborted"
    evPool,          \* name of the pool being iterated, None before the first
    evRow,           \* the row handled last, None when none was
    lastAlerts,      \* the send_alert_notification calls made for evRow
    \* --- poll cycles and manual refreshes of one process (SpecPoll)
    config_data,     \* which of controller_ip, username, password are set; polling_interval
    license_data,    \* the current snapshot (module global license_data)
    pollPc,          \* position of the worker in its loop body
    pollResult,      \* the worker's `result` of get_license_usage, None before
    sleepSecs,       \* seconds of the worker's current time.sleep, 0 when awake
    cycleOutcome,    \* how the worker's last iteration went
    refPc,           \* position of the refresh_license request
    refResult,       \* the request's `result` of get_license_usage, None before
    refResponse,     \* status of the last /api/refresh response, "none" before
    fetchSeq,        \* get_license_usage calls completed so far
    lastOk,          \* data of the most recent successful get_license_usage
    overlapped,      \* two successful results were waiting to be stored at once
    \* --- notification settings of config_data and the NotificationManager
    smtp_enabled,    \* config_data.get('smtp_enabled', False)
    syslog_enabled,  \* config_data.get('syslog_enabled', False)
    enable_notifications, \* config_data.get('enable_notifications', False)
    smtp_to,         \* config_data['smtp_to'], a string (sequence of characters)
    smtp_config,     \* notification_manager.smtp_config, None for {}
    syslog_config,   \* notification_manager.syslog_config, None for {}
    sent,            \* what the last send site handed to the NotificationManager
    \* --- one worker's iterations statement by statement (SpecCycle)
    cfgVersion,      \* which configuration object the global config_data names
    args,            \* the configuration each argument of get_license_usage came from
    cycPc,           \* position of the worker in the iteration
    answers,         \* what the controller answers to login, the two commands and logout
    events,          \* what the iteration has done so far, in order
    cycResult,       \* `result` of get_license_usage, None before it returns
    cycles,          \* iterations started so far
    \* --- the rule mapping under save_alert_settings and save_config_api (SpecRules)
    hasAlertKey,     \* 'alert_settings' in config_data
    lastOp,          \* the request handled last: "none", "save_rule" or "apply"
    rulesBefore,     \* hasAlertKey and alert_settings as that request found them
    \* --- the timestamped record files data/license_usage_*.json
    records,         \* the snapshots written to a record file
    unwritten,       \* the snapshots whose record could not be written
    \* --- one call of send_email or send_syslog (SpecSend)
    sendIn,          \* the call: channel, settings present, port, what each step does
    sendOut,         \* how the call ended, None before
    \* --- alert evaluation from its two callers (SpecEntry)
    entryResponse,   \* the snapshot get_license_usage returned
    entryBy,         \* "none", or the caller that evaluated it: "poll", "refresh"
    entryAlerts      \* the alerts that evaluation dispatched, in order

lockVars == <<lockPath, flock, fd, fileText>>
procVars == <<polling_active, polling_thread, active_threads, controller_ip>>
ctlVars == <<pc, req, booted, rounds, wasRunning>>
schedVars == <<lockVars, procVars, ctlVars>>
evalVars == <<alert_settings, evStatus, evPool, evRow, lastAlerts>>
pollVars == <<config_data, license_data, pollPc, pollResult, sleepSecs, cycleOutcome,
              refPc, refResult, refResponse, fetchSeq, lastOk, overlapped>>
notifVars == <<smtp_enabled, syslog_enabled, enable_notifications, smtp_to,
               smtp_config, syslog_config, sent>>
cycVars == <<cfgVersion, args, cycPc, answers, events, cycResult, cycles>>
ruleVars == <<hasAlertKey, lastOp, rulesBefore>>
recVars == <<records, unwritten>>
sendVars == <<sendIn, sendOut>>
entryVars == <<entryResponse, entryBy, entryAlerts>>
nonSchedVars == <<evalVars, pollVars, notifVars, cycVars, ruleVars, recVars, sendVars, entryVars>>
nonEvalVars == <<schedVars, pollVars, notifVars, cycVars, ruleVars, recVars, sendVars, entryVars>>
nonPollVars == <<schedVars, evalVars, notifVars, cycVars, ruleVars, recVars, sendVars, entryVars>>
\* what a statement of the worker or of the refresh that writes a record leaves alone
nonPollRecVars == <<schedVars, evalVars, notifVars, cycVars, ruleVars, sendVars, entryVars>>

\* ----------------------------------------------------- the lock file (flock)
\* The smallest inode number that is neither linked at the path nor open.
FreshInode ==
    LET free == {i \in Inodes : i # lockPath /\ \A w \in Workers : fd[w] # i}
    IN  CHOOSE i \in free : \A j \in free : i <= j

\* open(lock_file_path, 'w'): creates the file when the path does not exist,
\* truncates the existing file otherwise; the context gets a new open file.
OpenLockFile(w) ==
    IF lockPath = NoFile
    THEN /\ lockPath' = FreshInode
         /\ fd' = [fd EXCEPT ![w] = FreshInode]
         /\ fileText' = [fileText EXCEPT ![FreshInode] = 0]
    ELSE /\ lockPath' = lockPath
         /\ fd' = [fd EXCEPT ![w] = lockPath]
         /\ fileText' = [fileText EXCEPT ![lockPath] = 0]

\* fcntl.flock(fd, LOCK_EX | LOCK_NB) would succeed: nobody holds the inode.
FlockFree(w) == flock[fd[w]] = None

\* flock succeeded; lock_file.write(str(os.getpid())); flush(); return lock_file
FlockTake(w) ==
    /\ flock' = [flock EXCEPT ![fd[w]] = w]
    /\ fileText' = [fileText EXCEPT ![fd[w]] = w[1]]
    /\ UNCHANGED <<lockPath, fd>>

\* flock raised: return None; the file object is dropped, which closes it.
FlockBusy(w) ==
    /\ fd' = [fd EXCEPT ![w] = NoFile]
    /\ UNCHANGED <<lockPath, flock, fileText>>

\* fcntl.flock(lock_file.fileno(), fcntl.LOCK_UN)
Unlock(w) ==
    /\ flock' = [flock EXCEPT ![fd[w]] = IF @ = w THEN None ELSE @]
    /\ UNCHANGED <<lockPath, fd, fileText>>

\* lock_file.close()
CloseLockFile(w) ==
    /\ fd' = [fd EXCEPT ![w] = NoFile]
    /\ flock' = [flock EXCEPT ![fd[w]] = IF @ = w THEN None ELSE @]
    /\ UNCHANGED <<lockPath, fileText>>

\* if os.path.exists(lock_file_path): os.remove(lock_file_path)
RemoveLockPath ==
    /\ lockPath' = NoFile
    /\ UNCHANGED <<flock, fd, fileText>>

\* release_polling_lock: `if lock_file:`, nothing is done for None
ReleaseRunsAlways(handle) == TRUE
ReleaseRuns(handle) == handle # NoFile

\* release_polling_lock run to its end: unlock, close, remove the path
ReleaseAll(w) ==
    /\ flock' = [i \in Inodes |-> IF flock[i] = w THEN None ELSE flock[i]]
    /\ fd' = [fd EXCEPT ![w] = NoFile]
    /\ lockPath' = NoFile
    /\ UNCHANGED fileText

\* The context holds a LockHandle: an open lock file on which it holds LOCK_EX.
HoldsLock(w) == fd[w] # NoFile /\ flock[fd[w]] = w

\* --------------------------------------------------------- polling_worker
\* The thread is alive: started and not yet returned from polling_worker.
Alive(w) == pc[w] \notin {"unborn", "exited"}

\* The worker is inside `while polling_active:` (testing the flag, in a cycle
\* or asleep between cycles).
InLoop(w) == pc[w] \in {"loop_top", "cycle", "sleep"}

\* threading.current_thread().ident
ThreadIdent(w) == w[2]

\* lock_file = acquire_polling_lock(): open(lock_file_path, 'w')
AcquireOpen(w) ==
    /\ pc[w] = "open"
    /\ OpenLockFile(w)
    /\ UNCHANGED flock
    /\ pc' = [pc EXCEPT ![w] = "flock"]
    /\ UNCHANGED <<procVars, req, booted, rounds, wasRunning>>
    /\ UNCHANGED nonSchedVars

\* ... flock(LOCK_EX | LOCK_NB); `if not lock_file: return`
AcquireFlock(w) ==
    /\ pc[w] = "flock"
    /\ IF FlockFree(w)
       THEN FlockTake(w) /\ pc' = [pc EXCEPT ![w] = "check_active"]
       ELSE FlockBusy(w) /\ pc' = [pc EXCEPT ![w] = "exited"]
    /\ UNCHANGED <<procVars, req, booted, rounds, wasRunning>>
    /\ UNCHANGED nonSchedVars

\* `if not polling_active: release_polling_lock(lock_file); return`
CheckActive(w) ==
    /\ pc[w] = "check_active"
    /\ pc' = [pc EXCEPT ![w] = IF polling_active[w[1]] THEN "register" ELSE "rel_unlock"]
    /\ UNCHANGED <<lockVars, procVars, req, booted, rounds, wasRunning>>
    /\ UNCHANGED nonSchedVars

\* `if thread_id in active_threads: release_polling_lock(lock_file); return`:
\* where the worker goes on, and the registry it leaves
AfterRegister(thread_id, registry) ==
    IF thread_id \in registry THEN "rel_unlock" ELSE "loop_top"
RegistryAfter(thread_id, registry) ==
    IF thread_id \in registry THEN registry ELSE registry \cup {thread_id}

\* active_threads.discard(thread_id)
DiscardedNever(thread_id, registry) == registry
Discarded(thread_id, registry) == registry \ {thread_id}

\* `if thread_id in active_threads: release...; return`, else active_threads.add
Register(w) ==
    /\ pc[w] = "register"
    /\ pc' = [pc EXCEPT ![w] = AfterRegister(ThreadIdent(w), active_threads[w[1]])]
    /\ active_threads' = [active_threads EXCEPT
                             ![w[1]] = RegistryAfter(ThreadIdent(w), @)]
    /\ UNCHANGED <<lockVars, polling_active, polling_thread, controller_ip,
                   req, booted, rounds, wasRunning>>
    /\ UNCHANGED nonSchedVars

\* `while polling_active:` tested at the top of an iteration
LoopTop(w) ==
    /\ pc[w] = "loop_top"
    /\ pc' = [pc EXCEPT ![w] = IF polling_active[w[1]] THEN "cycle" ELSE "cleanup"]
    /\ UNCHANGED <<lockVars, procVars, req, booted, rounds, wasRunning>>
    /\ UNCHANGED nonSchedVars

\* the body of one iteration up to the sleep (the cycle itself is SpecPoll's)
Cycle(w) ==
    /\ pc[w] = "cycle"
    /\ pc' = [pc EXCEPT ![w] = "sleep"]
    /\ UNCHANGED <<lockVars, procVars, req, booted, rounds, wasRunning>>
    /\ UNCHANGED nonSchedVars

\* time.sleep(...) returns
Wake(w) ==
    /\ pc[w] = "sleep"
    /\ pc' = [pc EXCEPT ![w] = "loop_top"]
    /\ UNCHANGED <<lockVars, procVars, req, booted, rounds, wasRunning>>
    /\ UNCHANGED nonSchedVars

\* after the loop: active_threads.discard(thread_id); release_polling_lock
Cleanup(w) ==
    /\ pc[w] = "cleanup"
    /\ active_threads' = [active_threads EXCEPT ![w[1]] = Discarded(ThreadIdent(w), @)]
    /\ pc' = [pc EXCEPT ![w] = "rel_unlock"]
    /\ UNCHANGED <<lockVars, polling_active, polling_thread, controller_ip,
                   req, booted, rounds, wasRunning>>
    /\ UNCHANGED nonSchedVars

\* release_polling_lock, statement by statement
ReleaseUnlock(w) ==
    /\ pc[w] = "rel_unlock"
    /\ Unlock(w)
    /\ pc' = [pc EXCEPT ![w] = "rel_close"]
    /\ UNCHANGED <<procVars, req, booted, rounds, wasRunning>>
    /\ UNCHANGED nonSchedVars

ReleaseClose(w) ==
    /\ pc[w] = "rel_close"
    /\ CloseLockFile(w)
    /\ pc' = [pc EXCEPT ![w] = "rel_remove"]
    /\ UNCHANGED <<procVars, req, booted, rounds, wasRunning>>
    /\ UNCHANGED nonSchedVars

ReleaseRemove(w) ==
    /\ pc[w] = "rel_remove"
    /\ IF lockPath # NoFile THEN RemoveLockPath ELSE UNCHANGED lockVars
    /\ pc' = [pc EXCEPT ![w] = "exited"]
    /\ UNCHANGED <<procVars, req, booted, rounds, wasRunning>>
    /\ UNCHANGED nonSchedVars

\* ------------------------------------------ start-up and save_config_api
\* polling_active = True; polling_thread = Thread(target=polling_worker); start()
\* The new thread is the next unused one of the process.
CanStart(p) == polling_thread[p] < MaxThreads

StartPoller(p) ==
    /\ polling_active' = [polling_active EXCEPT ![p] = TRUE]
    /\ polling_thread' = [polling_thread EXCEPT ![p] = @ + 1]
    /\ pc' = [pc EXCEPT ![<<p, polling_thread[p] + 1>>] = "open"]

\* The process starts. Launched as `python app.py` it runs the __main__ block,
\* which starts the poller when a controller is configured; launched through
\* run_web.py it only loads the configuration.
Boot(p, viaMain, ip) ==
    /\ ~booted[p]
    /\ booted' = [booted EXCEPT ![p] = TRUE]
    /\ controller_ip' = [controller_ip EXCEPT ![p] = ip]
    /\ IF viaMain /\ ip /\ ~polling_active[p]
       THEN StartPoller(p)
       ELSE UNCHANGED <<polling_active, polling_thread, pc>>
    /\ UNCHANGED <<lockVars, active_threads, req, rounds, wasRunning>>
    /\ UNCHANGED nonSchedVars

\* save_config_api after the join: remove the lock file, start a new thread.
RemoveAndStart(p) ==
    /\ IF lockPath # NoFile THEN RemoveLockPath ELSE UNCHANGED lockVars
    /\ StartPoller(p)

\* save_config_api up to polling_thread.join(timeout=5). Without a controller
\* address nothing is restarted; with polling_active False the poller is just
\* started; with a dead (or no) thread the join is skipped.
SaveConfigBegin(p, ip) ==
    /\ booted[p]
    /\ req[p] = "idle"
    /\ ip => CanStart(p)
    /\ controller_ip' = [controller_ip EXCEPT ![p] = ip]
    /\ wasRunning' = [wasRunning EXCEPT ![p] =
                         ip /\ polling_active[p]
                            /\ \E k \in 1..MaxThreads : InLoop(<<p, k>>)]
    /\ IF ~ip
       THEN UNCHANGED <<lockVars, polling_active, polling_thread, pc, req>>
       ELSE IF ~polling_active[p]
       THEN StartPoller(p) /\ UNCHANGED <<lockVars, req>>
       ELSE IF polling_thread[p] # 0 /\ Alive(<<p, polling_thread[p]>>)
       THEN /\ polling_active' = [polling_active EXCEPT ![p] = FALSE]
            /\ req' = [req EXCEPT ![p] = "join"]
            /\ UNCHANGED <<lockVars, polling_thread, pc>>
       ELSE RemoveAndStart(p) /\ UNCHANGED req
    /\ UNCHANGED <<active_threads, booted, rounds>>
    /\ UNCHANGED nonSchedVars

\* The thread is in a call that can outlast the join timeout: a controller
\* request of the cycle or the sleep between cycles. Every other position is
\* left within the 5 seconds.
Blocked(w) == pc[w] \in {"cycle", "sleep"}

\* join(timeout=5) returns, because the thread ended or because 5 s elapsed
\* with the thread blocked; then the rest of save_config_api.
SaveConfigFinish(p, timedOut) ==
    /\ req[p] = "join"
    /\ IF timedOut THEN Blocked(<<p, polling_thread[p]>>)
                   ELSE ~Alive(<<p, polling_thread[p]>>)
    /\ RemoveAndStart(p)
    /\ req' = [req EXCEPT ![p] = "idle"]
    /\ UNCHANGED <<active_threads, controller_ip, booted, rounds, wasRunning>>
    /\ UNCHANGED nonSchedVars

\* ---------------------------------------------------- check_license_alerts
\* A usage value as the controller's JSON gives it: the key is absent, or it
\* holds a string (a sequence of characters), a number or null.
Absent == [kind |-> "absent"]
Null == [kind |-> "null"]
Str(s) == [kind |-> "str", s |-> s]
Num(n) == [kind |-> "num", n |-> n]

Digits == {"0", "1", "2", "3", "4", "5", "6", "7", "8", "9"}
DigitVal(c) ==
    CASE c = "0" -> 0 [] c = "1" -> 1 [] c = "2" -> 2 [] c = "3" -> 3 [] c = "4" -> 4
      [] c = "5" -> 5 [] c = "6" -> 6 [] c = "7" -> 7 [] c = "8" -> 8 [] c = "9" -> 9

RECURSIVE NatOf(_)
NatOf(s) == IF s = <<>> THEN 0 ELSE 10 * NatOf(SubSeq(s, 1, Len(s) - 1)) + DigitVal(s[Len(s)])

RECURSIVE Strip(_)
Strip(s) ==
    IF s = <<>> THEN s
    ELSE IF Head(s) = " " THEN Strip(Tail(s))
    ELSE IF s[Len(s)] = " " THEN Strip(SubSeq(s, 1, Len(s) - 1))
    ELSE s

AllDigits(s) == s # <<>> /\ \A i \in 1..Len(s) : s[i] \in Digits

\* int(x) of Python: [ok, val]; ok is FALSE where int raises ValueError or
\* TypeError. A string is stripped, may carry a sign, and must then be digits.
PyInt(v) ==
    CASE v.kind = "absent" -> [ok |-> TRUE, val |-> 0]
      [] v.kind = "num" -> [ok |-> TRUE, val |-> v.n]
      [] v.kind = "null" -> [ok |-> FALSE, val |-> 0]
      [] v.kind = "str" ->
            LET t == Strip(v.s)
                signed == t # <<>> /\ Head(t) \in {"-", "+"}
                body == IF signed THEN Tail(t) ELSE t
            IN  IF AllDigits(body)
                THEN [ok |-> TRUE,
                      val |-> IF signed /\ Head(t) = "-" THEN 0 - NatOf(body) ELSE NatOf(body)]
                ELSE [ok |-> FALSE, val |-> 0]

\* pool_name.startswith('License Clients License Usage for pool'); a name is
\* modelled as its sequence of words.
PoolPrefix == <<"License", "Clients", "License", "Usage", "for", "pool">>
PoolMatches(name) ==
    Len(name) >= Len(PoolPrefix) /\ SubSeq(name, 1, Len(PoolPrefix)) = PoolPrefix

\* `if client.get('Hostname') and client.get('Hostname') != 'TOTAL'`
\* (an absent, null or empty Hostname is the empty string here)
EvaluatedWithTotal(row) == row.Hostname # ""
Evaluated(row) == row.Hostname # "" /\ row.Hostname # "TOTAL"

\* alert_settings.get(hostname)
RuleFor(h) == IF h \in DOMAIN alert_settings THEN alert_settings[h] ELSE None

\* `if ap_value > threshold and threshold > 0`
BreachIgnoringZero(ap_value, threshold) == ap_value > threshold
Breach(ap_value, threshold) == ap_value > threshold /\ threshold > 0

Alert(pool, h, ap_value, threshold, type) ==
    [pool |-> pool, Hostname |-> h, ap_value |-> ap_value,
     threshold |-> threshold, alert_type |-> type]

\* the two `if ..._enabled: send_alert_notification(...)` statements
ChannelAlertsEmailFirst(pool, h, ap_value, rule) ==
    IF rule.email_enabled THEN <<Alert(pool, h, ap_value, rule.threshold, "email")>>
    ELSE IF rule.syslog_enabled THEN <<Alert(pool, h, ap_value, rule.threshold, "syslog")>>
    ELSE <<>>
ChannelAlerts(pool, h, ap_value, rule) ==
    (IF rule.email_enabled THEN <<Alert(pool, h, ap_value, rule.threshold, "email")>> ELSE <<>>)
    \o (IF rule.syslog_enabled THEN <<Alert(pool, h, ap_value, rule.threshold, "syslog")>> ELSE <<>>)

\* The body of `for client in pool_data:` for one row: whether it raised (the
\* exception leaves both loops for the except clause of the function) and the
\* notification calls it made.
RowOutcome(pool, row) ==
    IF ~Evaluated(row) THEN [raised |-> FALSE, alerts |-> <<>>]
    ELSE LET ap == PyInt(row.AP)
             rule == RuleFor(row.Hostname)
         IN  IF ~ap.ok THEN [raised |-> TRUE, alerts |-> <<>>]
             ELSE IF rule = None THEN [raised |-> FALSE, alerts |-> <<>>]
             ELSE IF Breach(ap.val, rule.threshold)
             THEN [raised |-> FALSE,
                   alerts |-> ChannelAlerts(pool, row.Hostname, ap.val, rule)]
             ELSE [raised |-> FALSE, alerts |-> <<>>]

\* inputs of the evaluator
Hostnames == {"", "TOTAL", "ap-01", "ap-02"}
RuleKeys == {"ap-01", "TOTAL"}
Thresholds == {-1, 0, 1, 2}
Rules == [threshold : Thresholds, email_enabled : BOOLEAN, syslog_enabled : BOOLEAN]
APValues ==
    {Absent, Null, Num(2), Str(<<>>), Str(<<"1">>), Str(<<"2">>), Str(<<"1", "2">>),
     Str(<<" ", "2">>), Str(<<"x">>), Str(<<"1", "x">>)}
Rows == [Hostname : Hostnames, AP : APValues]
PoolNames == {PoolPrefix \o <<"1">>, PoolPrefix \o <<"2">>, <<"_data">>, <<"License", "Clients">>}

\* `alert_settings = config_data.get('alert_settings', {})`;
\* `if not alert_settings: return`
EvalBegin ==
    /\ evStatus = "start"
    /\ evStatus' = IF \A h \in DOMAIN alert_settings : alert_settings[h] = None
                   THEN "returned" ELSE "pools"
    /\ UNCHANGED <<alert_settings, evPool, evRow, lastAlerts>>
    /\ UNCHANGED nonEvalVars

\* `for pool_name, pool_data in license_data.items():` takes the next pool
EvalNextPool(name) ==
    /\ evStatus = "pools"
    /\ evPool' = name
    /\ evStatus' = IF PoolMatches(name) THEN "rows" ELSE "pools"
    /\ UNCHANGED <<alert_settings, evRow, lastAlerts>>
    /\ UNCHANGED nonEvalVars

\* `for client in pool_data:` takes the next row of the pool
EvalRow(row) ==
    /\ evStatus = "rows"
    /\ evRow' = row
    /\ lastAlerts' = RowOutcome(evPool, row).alerts
    /\ evStatus' = IF RowOutcome(evPool, row).raised THEN "aborted" ELSE "rows"
    /\ UNCHANGED <<alert_settings, evPool>>
    /\ UNCHANGED nonEvalVars

\* the pool has no more rows
EvalPoolEnd ==
    /\ evStatus = "rows"
    /\ evStatus' = "pools"
    /\ UNCHANGED <<alert_settings, evPool, evRow, lastAlerts>>
    /\ UNCHANGED nonEvalVars

\* the snapshot has no more pools
EvalEnd ==
    /\ evStatus = "pools"
    /\ evStatus' = "returned"
    /\ UNCHANGED <<alert_settings, evPool, evRow, lastAlerts>>
    /\ UNCHANGED nonEvalVars

InitEvalIdle ==
    /\ alert_settings = [h \in RuleKeys |-> None]
    /\ evStatus = "returned"
    /\ evPool = None
    /\ evRow = None
    /\ lastAlerts = <<>>

\* ------------------------------------------- poll cycle and manual refresh
\* time.sleep(60) after an exception in the loop body
RetryDelay == 60
\* the process whose worker and refresh request SpecPoll follows
PollProc == CHOOSE p \in Procs : \A q \in Procs : p <= q

\* license_data = {} at import; a fetched snapshot holds the usage and the
\* summary of the controller response with the given id (0: empty summary)
EmptyData == [license_usage |-> 0, license_summary |-> 0]
Snapshot(id, withSummary) ==
    [license_usage |-> id, license_summary |-> IF withSummary THEN id ELSE 0]

\* get_license_usage: login, `show license-usage`, `show license summary`,
\* logout, given what the controller answers to each and the id of its
\* response. A failed login or usage command gives an error result; a failed
\* summary command gives an empty summary.
GetLicenseUsageStrict(login, usage, summary, id) ==
    IF login = "success" /\ usage = "success" /\ summary = "success"
    THEN [status |-> "success", data |-> Snapshot(id, TRUE)]
    ELSE [status |-> "error", data |-> None]
GetLicenseUsage(login, usage, summary, id) ==
    IF login # "success" THEN [status |-> "error", data |-> None]
    ELSE IF usage # "success" THEN [status |-> "error", data |-> None]
    ELSE [status |-> "success", data |-> Snapshot(id, summary = "success")]

\* `if result["status"] == "success": license_data = result["data"]`
StoredAlways(result, current) == IF result.data = None THEN EmptyData ELSE result.data
Stored(result, current) == IF result.status = "success" THEN result.data ELSE current

\* `interval = config_data.get('polling_interval', 86400)`; sleep(interval * 60)
IntervalSecs == config_data.polling_interval * 60

\* controller_ip, username and password are all set
HasCredentials ==
    config_data.controller_ip /\ config_data.username /\ config_data.password

\* actors holding a successful result they have not stored yet
PendingOk ==
    (IF pollPc = "assign" /\ pollResult.status = "success" THEN {"worker"} ELSE {})
    \cup (IF refPc = "assign" /\ refResult.status = "success" THEN {"refresh"} ELSE {})

\* bookkeeping of a completed get_license_usage
FetchDone(result) ==
    /\ fetchSeq' = fetchSeq + 1
    /\ lastOk' = IF result.status = "success" THEN result.data ELSE lastOk
    /\ overlapped' = (overlapped \/ (result.status = "success" /\ PendingOk # {}))

LoginOutcomes == {"success", "refused", "transport"}
CommandOutcomes == {"success", "error"}

\* `while polling_active:` and the credentials test at the top of the body
PollLoopTop ==
    /\ pollPc = "loop_top"
    /\ IF ~polling_active[PollProc]
       THEN pollPc' = "exited" /\ UNCHANGED cycleOutcome
       ELSE IF HasCredentials
       THEN pollPc' = "fetch" /\ UNCHANGED cycleOutcome
       ELSE pollPc' = "end_cycle" /\ cycleOutcome' = "skipped"
    /\ UNCHANGED <<config_data, license_data, pollResult, sleepSecs,
                   refPc, refResult, refResponse, fetchSeq, lastOk, overlapped>>
    /\ UNCHANGED nonPollVars

\* result = get_license_usage(...)
PollFetch(login, usage, summary) ==
    /\ pollPc = "fetch"
    /\ fetchSeq < MaxFetches
    /\ pollResult' = GetLicenseUsage(login, usage, summary, fetchSeq + 1)
    /\ FetchDone(pollResult')
    /\ pollPc' = "assign"
    /\ UNCHANGED <<config_data, license_data, sleepSecs, cycleOutcome,
                   refPc, refResult, refResponse>>
    /\ UNCHANGED nonPollVars

\* `if result["status"] == "success": license_data = result["data"]`, else
\* the failure is printed
PollAssign ==
    /\ pollPc = "assign"
    /\ license_data' = Stored(pollResult, license_data)
    /\ IF pollResult.status = "success"
       THEN pollPc' = "persist" /\ UNCHANGED cycleOutcome
       ELSE pollPc' = "end_cycle" /\ cycleOutcome' = "fetch_failed"
    /\ UNCHANGED <<config_data, pollResult, sleepSecs,
                   refPc, refResult, refResponse, fetchSeq, lastOk, overlapped>>
    /\ UNCHANGED nonPollVars

\* with open(filename, 'w') as f: json.dump(license_data, f, ...): the value
\* of the global at that moment goes to a new record file, unless the write
\* raises
WriteRecord(written, data) ==
    /\ records' = IF written THEN records \cup {data} ELSE records
    /\ unwritten' = IF written THEN unwritten ELSE unwritten \cup {data}

\* the snapshot record is written; an exception goes to `except Exception`,
\* which sleeps RetryDelay seconds
PollPersist(written) ==
    /\ pollPc = "persist"
    /\ WriteRecord(written, license_data)
    /\ IF written
       THEN pollPc' = "evaluate" /\ UNCHANGED <<sleepSecs, cycleOutcome>>
       ELSE pollPc' = "sleep" /\ sleepSecs' = RetryDelay /\ cycleOutcome' = "raised"
    /\ UNCHANGED <<config_data, license_data, pollResult,
                   refPc, refResult, refResponse, fetchSeq, lastOk, overlapped>>
    /\ UNCHANGED nonPollRecVars

\* check_license_alerts and send_notifications, neither of which raises
PollEvaluate ==
    /\ pollPc = "evaluate"
    /\ pollPc' = "end_cycle"
    /\ cycleOutcome' = "ok"
    /\ UNCHANGED <<config_data, license_data, pollResult, sleepSecs,
                   refPc, refResult, refResponse, fetchSeq, lastOk, overlapped>>
    /\ UNCHANGED nonPollVars

\* the end of the try body: time.sleep(interval * 60)
PollEnterSleep ==
    /\ pollPc = "end_cycle"
    /\ sleepSecs' = IntervalSecs
    /\ pollPc' = "sleep"
    /\ UNCHANGED <<config_data, license_data, pollResult, cycleOutcome,
                   refPc, refResult, refResponse, fetchSeq, lastOk, overlapped>>
    /\ UNCHANGED nonPollVars

\* the sleep returns
PollWake ==
    /\ pollPc = "sleep"
    /\ sleepSecs' = 0
    /\ pollPc' = "loop_top"
    /\ UNCHANGED <<config_data, license_data, pollResult, cycleOutcome,
                   refPc, refResult, refResponse, fetchSeq, lastOk, overlapped>>
    /\ UNCHANGED nonPollVars

\* POST /api/refresh up to the call of get_license_usage: without controller
\* address an error response; a username or password key missing from the
\* configuration raises KeyError, which the handler answers with an error
\* response (a key that is present but empty is passed on)
RefBegin(keyError) ==
    /\ refPc = "idle"
    /\ keyError => ~(config_data.username /\ config_data.password)
    /\ IF config_data.controller_ip /\ ~keyError
       THEN refPc' = "fetch" /\ UNCHANGED refResponse
       ELSE refPc' = "idle" /\ refResponse' = "error"
    /\ UNCHANGED <<config_data, license_data, pollPc, pollResult, sleepSecs, cycleOutcome,
                   refResult, fetchSeq, lastOk, overlapped>>
    /\ UNCHANGED nonPollVars

RefFetch(login, usage, summary) ==
    /\ refPc = "fetch"
    /\ fetchSeq < MaxFetches
    /\ refResult' = GetLicenseUsage(login, usage, summary, fetchSeq + 1)
    /\ FetchDone(refResult')
    /\ refPc' = "assign"
    /\ UNCHANGED <<config_data, license_data, pollPc, pollResult, sleepSecs, cycleOutcome,
                   refResponse>>
    /\ UNCHANGED nonPollVars

\* the rest of refresh_license: store a successful result, check the alerts,
\* answer
RefAssign ==
    /\ refPc = "assign"
    /\ license_data' = Stored(refResult, license_data)
    /\ refResponse' = refResult.status
    /\ refPc' = "idle"
    /\ UNCHANGED <<config_data, pollPc, pollResult, sleepSecs, cycleOutcome,
                   refResult, fetchSeq, lastOk, overlapped>>
    /\ UNCHANGED nonPollVars

Intervals == {1, 5}

InitPollIdle ==
    /\ config_data = [controller_ip |-> FALSE, username |-> FALSE, password |-> FALSE,
                      polling_interval |-> 1]
    /\ license_data = EmptyData
    /\ pollPc = "exited"
    /\ pollResult = None
    /\ sleepSecs = 0
    /\ cycleOutcome = "none"
    /\ refPc = "idle"
    /\ refResult = None
    /\ refResponse = "none"
    /\ fetchSeq = 0
    /\ lastOk = EmptyData
    /\ overlapped = FALSE
    /\ records = {}
    /\ unwritten = {}

\* ------------------------------------ NotificationManager and the send sites
\* s.split(','): the pieces of the string between its commas
RECURSIVE SplitComma(_)
SplitComma(s) ==
    IF \A i \in 1..Len(s) : s[i] # "," THEN <<s>>
    ELSE LET k == CHOOSE i \in 1..Len(s) : s[i] = "," /\ \A j \in 1..(i - 1) : s[j] # ","
         IN  <<SubSeq(s, 1, k - 1)>> \o SplitComma(SubSeq(s, k + 1, Len(s)))

\* save_config_api: [email.strip() for email in smtp_to.split(',') if email.strip()]
SplitAndTrim(s) ==
    LET parts == SplitComma(s)
        stripped == [i \in 1..Len(parts) |-> Strip(parts[i])]
    IN  SelectSeq(stripped, LAMBDA e : e # <<>>)

\* the send sites' first-use configuration: [config_data['smtp_to']]
LazyRecipients(s) == <<s>>

\* configure_smtp / configure_syslog: the settings the manager keeps (of the
\* SMTP settings the recipient list, of the syslog settings that they are set)
ConfigureSmtp(to_emails) == [to_emails |-> to_emails]
ConfigureSyslog == [server |-> TRUE]

\* send_email / send_syslog: without settings the call returns False at once,
\* with settings one delivery is attempted
SendEmail(cfg, kind) ==
    IF cfg = None
    THEN [channel |-> "email", kind |-> kind, attempted |-> FALSE, to |-> <<>>]
    ELSE [channel |-> "email", kind |-> kind, attempted |-> TRUE, to |-> cfg.to_emails]
SendSyslog(cfg, kind) ==
    [channel |-> "syslog", kind |-> kind, attempted |-> cfg # None, to |-> <<>>]

\* the part of save_config_api that configures the notification manager
ApplyNotifConfig(se, sy, en, to) ==
    /\ smtp_enabled' = se
    /\ syslog_enabled' = sy
    /\ enable_notifications' = en
    /\ smtp_to' = to
    /\ smtp_config' = IF se THEN ConfigureSmtp(SplitAndTrim(to)) ELSE smtp_config
    /\ syslog_config' = IF sy THEN ConfigureSyslog ELSE syslog_config

\* send_alert_notification(hostname, ap_value, threshold, alert_type), and the
\* same statements in send_alert: a disabled channel sends nothing, an enabled
\* one is configured from config_data when the manager has no settings
SendAlertNotification(alert_type) ==
    /\ smtp_config' = IF alert_type = "email" /\ smtp_enabled /\ smtp_config = None
                      THEN ConfigureSmtp(LazyRecipients(smtp_to)) ELSE smtp_config
    /\ syslog_config' = IF alert_type = "syslog" /\ syslog_enabled /\ syslog_config = None
                        THEN ConfigureSyslog ELSE syslog_config
    /\ sent' = CASE alert_type = "email" /\ smtp_enabled -> <<SendEmail(smtp_config', "alert")>>
                 [] alert_type = "syslog" /\ syslog_enabled -> <<SendSyslog(syslog_config', "alert")>>
                 [] OTHER -> <<>>

\* send_notifications: license_info = the License entries of license_data["_data"]
ReportInfo(data) ==
    IF "_data" \in DOMAIN data
    THEN LET items == SelectSeq(data._data, LAMBDA item : "License" \in DOMAIN item)
         IN  [i \in 1..Len(items) |-> items[i].License]
    ELSE <<>>

\* send_notifications(license_data): nothing without license_info, else the
\* report goes to send_email / send_syslog of every enabled channel
ReportSendsConfigured(data) ==
    IF ReportInfo(data) = <<>> THEN <<>>
    ELSE (IF smtp_config # None THEN <<SendEmail(smtp_config, "report")>> ELSE <<>>)
         \o (IF syslog_config # None THEN <<SendSyslog(syslog_config, "report")>> ELSE <<>>)
ReportSends(data) ==
    IF ReportInfo(data) = <<>> THEN <<>>
    ELSE (IF smtp_enabled THEN <<SendEmail(smtp_config, "report")>> ELSE <<>>)
         \o (IF syslog_enabled THEN <<SendSyslog(syslog_config, "report")>> ELSE <<>>)

SendNotifications(data) ==
    /\ sent' = ReportSends(data)
    /\ UNCHANGED <<smtp_config, syslog_config>>

\* values of the to-address field
ToFields ==
    {<<>>, <<"a">>, <<"a", ",", "b">>, <<"a", ",", " ", "b">>, <<" ", "a", ",">>}

InitNotifIdle ==
    /\ smtp_enabled = FALSE
    /\ syslog_enabled = FALSE
    /\ enable_notifications = FALSE
    /\ smtp_to = <<>>
    /\ smtp_config = None
    /\ syslog_config = None
    /\ sent = <<>>

\* --------------------------------- one iteration, statement by statement
pollRest == <<config_data, pollPc, pollResult, sleepSecs, cycleOutcome,
              refPc, refResult, refResponse, fetchSeq, lastOk, overlapped>>
nonCycVars == <<schedVars, evalVars, pollRest, ruleVars, recVars, sendVars, entryVars>>
nonCycRecVars == <<schedVars, evalVars, pollRest, ruleVars, sendVars, entryVars>>

NoAnswers == [login |-> "none", usage |-> "none", summary |-> "none", logout |-> "none"]
NoArgs == [controller_ip |-> 0, username |-> 0, password |-> 0]

\* get_license_usage after login: a refused or failed login returns at once
AfterLogin(login) == IF login = "success" THEN "usage" ELSE "return"
\* after `show license-usage`: a failure logs out and returns
AfterUsageNoLogout(usage) == IF usage = "success" THEN "summary" ELSE "return"
AfterUsage(usage) == IF usage = "success" THEN "summary" ELSE "logout"
\* polling_worker after the fetch: only a successful result is persisted
AfterAssignFatal(result) == IF result.status = "success" THEN "persist" ELSE "exited"
AfterAssign(result) == IF result.status = "success" THEN "persist" ELSE "sleep"
\* after the record is written: an exception leaves the try body for the
\* except clause, which sleeps; otherwise the alerts are checked
AfterPersistAlways(written) == "alerts"
AfterPersistFatal(written) == IF written THEN "alerts" ELSE "exited"
AfterPersist(written) == IF written THEN "alerts" ELSE "sleep"

\* `while polling_active:` with the flag set, and the credentials test (every
\* configuration of this specification holds address, username and password)
CycLoopTop ==
    /\ cycPc = "top"
    /\ cycles < MaxCycles
    /\ cycles' = cycles + 1
    /\ cycPc' = "arg_ip"
    /\ args' = NoArgs
    /\ answers' = NoAnswers
    /\ events' = <<>>
    /\ cycResult' = None
    /\ UNCHANGED <<cfgVersion, license_data, notifVars>>
    /\ UNCHANGED nonCycVars

\* the arguments of the call: config_data['controller_ip'],
\* config_data['username'], config_data['password'], each read from the
\* object the global names at that moment
CycArg(at, field, next) ==
    /\ cycPc = at
    /\ args' = [args EXCEPT ![field] = cfgVersion]
    /\ cycPc' = next
    /\ UNCHANGED <<cfgVersion, answers, events, cycResult, cycles, license_data, notifVars>>
    /\ UNCHANGED nonCycVars

CycArgIp == CycArg("arg_ip", "controller_ip", "arg_user")
CycArgUser == CycArg("arg_user", "username", "arg_pass")
CycArgPass == CycArg("arg_pass", "password", "login")

\* client.login(username, password)
CycLogin(login) ==
    /\ cycPc = "login"
    /\ answers' = [answers EXCEPT !.login = login]
    /\ events' = Append(events, "login")
    /\ cycPc' = AfterLogin(login)
    /\ UNCHANGED <<cfgVersion, args, cycResult, cycles, license_data, notifVars>>
    /\ UNCHANGED nonCycVars

\* client.show_command("show license-usage")
CycUsage(usage) ==
    /\ cycPc = "usage"
    /\ answers' = [answers EXCEPT !.usage = usage]
    /\ events' = Append(events, "usage")
    /\ cycPc' = AfterUsage(usage)
    /\ UNCHANGED <<cfgVersion, args, cycResult, cycles, license_data, notifVars>>
    /\ UNCHANGED nonCycVars

\* client.show_command("show license summary")
CycSummary(summary) ==
    /\ cycPc = "summary"
    /\ answers' = [answers EXCEPT !.summary = summary]
    /\ events' = Append(events, "summary")
    /\ cycPc' = "logout"
    /\ UNCHANGED <<cfgVersion, args, cycResult, cycles, license_data, notifVars>>
    /\ UNCHANGED nonCycVars

\* client.logout(); what it returns is not looked at
CycLogout(logout) ==
    /\ cycPc = "logout"
    /\ answers' = [answers EXCEPT !.logout = logout]
    /\ events' = Append(events, "logout")
    /\ cycPc' = "return"
    /\ UNCHANGED <<cfgVersion, args, cycResult, cycles, license_data, notifVars>>
    /\ UNCHANGED nonCycVars

\* get_license_usage returns
CycReturn ==
    /\ cycPc = "return"
    /\ cycResult' = GetLicenseUsage(answers.login, answers.usage, answers.summary, cycles)
    /\ cycPc' = "assign"
    /\ UNCHANGED <<cfgVersion, args, answers, events, cycles, license_data, notifVars>>
    /\ UNCHANGED nonCycVars

\* `if result["status"] == "success": license_data = result["data"]`
CycAssign ==
    /\ cycPc = "assign"
    /\ license_data' = Stored(cycResult, license_data)
    /\ events' = IF cycResult.status = "success" THEN Append(events, "store") ELSE events
    /\ cycPc' = AfterAssign(cycResult)
    /\ UNCHANGED <<cfgVersion, args, answers, cycResult, cycles, notifVars>>
    /\ UNCHANGED nonCycVars

\* with open(filename, 'w') as f: json.dump(license_data, f, ...)
CycPersist(written) ==
    /\ cycPc = "persist"
    /\ events' = IF written THEN Append(events, "persist") ELSE events
    /\ cycPc' = AfterPersist(written)
    /\ WriteRecord(written, license_data)
    /\ UNCHANGED <<cfgVersion, args, answers, cycResult, cycles, license_data, notifVars>>
    /\ UNCHANGED nonCycRecVars

\* check_license_alerts(license_data["license_usage"]); alert_type is the
\* channel of the alert it dispatches, "none" when no row is above its rule
CycAlerts(alert_type) ==
    /\ cycPc = "alerts"
    /\ events' = Append(events, "alerts")
    /\ IF alert_type = "none"
       THEN UNCHANGED <<smtp_config, syslog_config, sent>>
       ELSE SendAlertNotification(alert_type)
    /\ cycPc' = "notify"
    /\ UNCHANGED <<smtp_enabled, syslog_enabled, enable_notifications, smtp_to>>
    /\ UNCHANGED <<cfgVersion, args, answers, cycResult, cycles, license_data>>
    /\ UNCHANGED nonCycVars

\* `if config_data.get('enable_notifications', False): send_notifications(license_data)`
CycNotify ==
    /\ cycPc = "notify"
    /\ IF enable_notifications
       THEN SendNotifications(license_data) /\ events' = Append(events, "notify")
       ELSE UNCHANGED <<smtp_config, syslog_config, sent, events>>
    /\ cycPc' = "sleep"
    /\ UNCHANGED <<smtp_enabled, syslog_enabled, enable_notifications, smtp_to>>
    /\ UNCHANGED <<cfgVersion, args, answers, cycResult, cycles, license_data>>
    /\ UNCHANGED nonCycVars

\* the sleep at the end of the iteration (or of the except clause) returns
CycWake ==
    /\ cycPc = "sleep"
    /\ cycPc' = "top"
    /\ UNCHANGED <<cfgVersion, args, answers, events, cycResult, cycles, license_data, notifVars>>
    /\ UNCHANGED nonCycVars

\* save_config_api in another thread: `config_data = new_config` makes the
\* global name a new object, then the notification manager is configured
CycSaveConfig(se, sy, en) ==
    /\ cfgVersion < MaxVersions
    /\ cfgVersion' = cfgVersion + 1
    /\ ApplyNotifConfig(se, sy, en, smtp_to)
    /\ UNCHANGED <<args, cycPc, answers, events, cycResult, cycles, license_data, sent>>
    /\ UNCHANGED nonCycVars

\* `while polling_active:` in the worker of the polling process: the body is
\* entered with the flag set, and the loop is left for the clean-up with the
\* flag cleared
CycLoopEnter ==
    /\ polling_active[PollProc]
    /\ CycLoopTop

CycLoopExit ==
    /\ cycPc = "top"
    /\ ~polling_active[PollProc]
    /\ cycPc' = "exited"
    /\ UNCHANGED <<cfgVersion, args, answers, events, cycResult, cycles, license_data, notifVars>>
    /\ UNCHANGED nonCycVars

\* save_config_api in another thread: `polling_active = False`
CycStop ==
    /\ polling_active[PollProc]
    /\ polling_active' = [polling_active EXCEPT ![PollProc] = FALSE]
    /\ UNCHANGED <<lockVars, polling_thread, active_threads, controller_ip, ctlVars>>
    /\ UNCHANGED <<evalVars, pollVars, notifVars, cycVars, ruleVars, recVars, sendVars, entryVars>>

InitCycIdle ==
    /\ cfgVersion = 1
    /\ args = NoArgs
    /\ cycPc = "exited"
    /\ answers = NoAnswers
    /\ events = <<>>
    /\ cycResult = None
    /\ cycles = 0

\* ----------------------------------- the rule mapping of the configuration
NoRules == [h \in RuleKeys |-> None]

\* Python truth value of a JSON value
Truthy(v) ==
    CASE v.kind = "absent" -> FALSE
      [] v.kind = "null" -> FALSE
      [] v.kind = "num" -> v.n # 0
      [] v.kind = "str" -> v.s # <<>>

\* save_alert_settings: 'threshold': int(threshold) if threshold else 0
StoredThreshold(v) == IF Truthy(v) THEN PyInt(v).val ELSE 0

\* save_config_api: new_config takes the alert_settings of config_data when
\* config_data has the key, and has no such key otherwise
PreservedDropped(has, settings) == [hasKey |-> FALSE, settings |-> NoRules]
Preserved(has, settings) ==
    [hasKey |-> has, settings |-> IF has THEN settings ELSE NoRules]

\* POST /api/save-alert-settings: a request without hostname is refused; else
\* the storage is created when missing, and the rule is stored unless
\* int(threshold) raises
SaveAlertSettings(hostname, threshold, email_on, syslog_on) ==
    /\ lastOp' = "save_rule"
    /\ rulesBefore' = [hasKey |-> hasAlertKey, settings |-> alert_settings]
    /\ IF hostname = ""
       THEN UNCHANGED <<hasAlertKey, alert_settings>>
       ELSE /\ hasAlertKey' = TRUE
            /\ IF Truthy(threshold) /\ ~PyInt(threshold).ok
               THEN UNCHANGED alert_settings
               ELSE alert_settings' =
                       [alert_settings EXCEPT ![hostname] =
                           [threshold |-> StoredThreshold(threshold),
                            email_enabled |-> email_on,
                            syslog_enabled |-> syslog_on]]
    /\ UNCHANGED <<evStatus, evPool, evRow, lastAlerts>>
    /\ UNCHANGED <<schedVars, pollVars, notifVars, cycVars, recVars, sendVars, entryVars>>

\* POST /api/config: the form is parsed (int() of a numeric field may raise,
\* which ends the request before anything is replaced), then
\* `config_data = new_config`
SaveConfigRules(parsed) ==
    /\ lastOp' = "apply"
    /\ rulesBefore' = [hasKey |-> hasAlertKey, settings |-> alert_settings]
    /\ IF parsed
       THEN /\ hasAlertKey' = Preserved(hasAlertKey, alert_settings).hasKey
            /\ alert_settings' = Preserved(hasAlertKey, alert_settings).settings
       ELSE UNCHANGED <<hasAlertKey, alert_settings>>
    /\ UNCHANGED <<evStatus, evPool, evRow, lastAlerts>>
    /\ UNCHANGED <<schedVars, pollVars, notifVars, cycVars, recVars, sendVars, entryVars>>

\* threshold values a save-rule request may carry
ThresholdInputs ==
    {Absent, Null, Num(0), Num(2), Num(-1), Str(<<>>), Str(<<"1">>), Str(<<"x">>)}

InitRulesIdle ==
    /\ hasAlertKey = (\E h \in RuleKeys : alert_settings[h] # None)
    /\ lastOp = "none"
    /\ rulesBefore = None

\* ------------------------------ the two callers of check_license_alerts
\* A dict is the sequence of its items in insertion order; keys are word
\* sequences like the pool names.
Item(key, value) == [key |-> key, value |-> value]

\* get_license_usage: combined_data = {"license_usage": ..., "license_summary": ...}
CombinedData(usage, summary) ==
    <<Item(<<"license_usage">>, usage), Item(<<"license_summary">>, summary)>>

\* license_data["license_usage"]
UsageOf(data) == (CHOOSE i \in {data[k] : k \in 1..Len(data)} : i.key = <<"license_usage">>).value

NoAlerts == [raised |-> FALSE, alerts |-> <<>>]

\* `for client in pool_data:` over all rows of one pool, up to a row that raises
RECURSIVE RowsAlerts(_, _)
RowsAlerts(pool, rows) ==
    IF rows = <<>> THEN NoAlerts
    ELSE LET o == RowOutcome(pool, Head(rows))
         IN  IF o.raised THEN o
             ELSE LET r == RowsAlerts(pool, Tail(rows))
                  IN  [raised |-> r.raised, alerts |-> o.alerts \o r.alerts]

\* `for pool_name, pool_data in license_data.items():` over all items of the
\* argument; only the value of a key with the pool prefix is looked at
RECURSIVE ItemsAlerts(_)
ItemsAlerts(items) ==
    IF items = <<>> THEN NoAlerts
    ELSE LET o == IF PoolMatches(Head(items).key)
                  THEN RowsAlerts(Head(items).key, Head(items).value)
                  ELSE NoAlerts
         IN  IF o.raised THEN o
             ELSE LET r == ItemsAlerts(Tail(items))
                  IN  [raised |-> r.raised, alerts |-> o.alerts \o r.alerts]

\* check_license_alerts(argument): the send_alert_notification calls it makes
CheckLicenseAlerts(argument) ==
    IF \A h \in DOMAIN alert_settings : alert_settings[h] = None THEN <<>>
    ELSE ItemsAlerts(argument).alerts

\* polling_worker: `if "license_usage" in license_data:
\*     check_license_alerts(license_data["license_usage"])`
PollChecks(data) == CheckLicenseAlerts(UsageOf(data))
\* refresh_license: check_license_alerts(license_data)
RefreshChecks(data) == CheckLicenseAlerts(data)

nonEntryVars == <<schedVars, pollVars, notifVars, cycVars, ruleVars, recVars, sendVars>>

EntryPoll ==
    /\ entryBy = "none"
    /\ entryBy' = "poll"
    /\ entryAlerts' = PollChecks(entryResponse)
    /\ UNCHANGED <<entryResponse, evalVars>>
    /\ UNCHANGED nonEntryVars

EntryRefresh ==
    /\ entryBy = "none"
    /\ entryBy' = "refresh"
    /\ entryAlerts' = RefreshChecks(entryResponse)
    /\ UNCHANGED <<entryResponse, evalVars>>
    /\ UNCHANGED nonEntryVars

\* controller responses: one pool of one or two rows
EntryRows ==
    {[Hostname |-> "ap-01", AP |-> Num(2)], [Hostname |-> "ap-01", AP |-> Str(<<"x">>)],
     [Hostname |-> "TOTAL", AP |-> Num(2)]}
EntryUsages ==
    {<<Item(name, rows)>> :
        name \in {PoolPrefix \o <<"1">>, <<"_data">>},
        rows \in {<<a>> : a \in EntryRows} \cup {<<a, b>> : a, b \in EntryRows}}
EntryResponses == {CombinedData(usage, <<>>) : usage \in EntryUsages}

InitEntryIdle ==
    /\ entryResponse = None
    /\ entryBy = "none"
    /\ entryAlerts = <<>>

\* ------------------------------------------ send_email and send_syslog
\* the calls send_email makes on the SMTP server, by the configured port, and
\* the calls send_syslog makes on the socket module
SmtpSteps(port) ==
    IF port = 465 THEN <<"connect_ssl", "login", "send_message", "quit">>
    ELSE <<"connect", "starttls", "login", "send_message", "quit">>
SyslogSteps == <<"socket", "sendto", "close">>
EmailStepNames == {"connect_ssl", "connect", "starttls", "login", "send_message", "quit"}
SyslogStepNames == {"socket", "sendto", "close"}

\* what a call on the server or socket does: it returns, or raises an
\* smtplib.SMTPException or an OSError
StepOutcomes == {"ok", "smtp_error", "os_error"}

\* `except Exception as e: ... return False`
CaughtOnlySmtp(exc) == exc = "smtp_error"
Caught(exc) == exc \in {"smtp_error", "os_error"}

\* the statements of the try body in order, up to and including the first
\* that raises
RECURSIVE RunSteps(_, _)
RunSteps(steps, outcome) ==
    IF steps = <<>> THEN <<>>
    ELSE IF outcome[Head(steps)] # "ok" THEN <<Head(steps)>>
    ELSE <<Head(steps)>> \o RunSteps(Tail(steps), outcome)

\* a call of send_email / send_syslog: without settings it returns False at
\* once; else the try body runs, True is returned at its end and False from
\* the except clause; returned is FALSE when an exception leaves the call
SendCall(configured, steps, outcome) ==
    IF ~configured THEN [returned |-> TRUE, result |-> FALSE, trace |-> <<>>]
    ELSE LET t == RunSteps(steps, outcome)
             exc == outcome[t[Len(t)]]
         IN  IF exc = "ok" THEN [returned |-> TRUE, result |-> TRUE, trace |-> t]
             ELSE [returned |-> Caught(exc), result |-> FALSE, trace |-> t]

nonSendVars == <<schedVars, evalVars, pollVars, notifVars, cycVars, ruleVars, recVars, entryVars>>

CallSendEmail(configured, port, outcome) ==
    /\ sendOut = None
    /\ sendIn' = [channel |-> "email", configured |-> configured, port |-> port,
                  outcome |-> outcome]
    /\ sendOut' = SendCall(configured, SmtpSteps(port), outcome)
    /\ UNCHANGED nonSendVars

CallSendSyslog(configured, outcome) ==
    /\ sendOut = None
    /\ sendIn' = [channel |-> "syslog", configured |-> configured, port |-> None,
                  outcome |-> outcome]
    /\ sendOut' = SendCall(configured, SyslogSteps, outcome)
    /\ UNCHANGED nonSendVars

InitSendIdle ==
    /\ sendIn = None
    /\ sendOut = None

\* ------------------------------------------------------------------- Spec
InitLock ==
    /\ lockPath = NoFile
    /\ flock = [i \in Inodes |-> None]
    /\ fd = [w \in Workers |-> NoFile]
    /\ fileText = [i \in Inodes |-> 0]

InitProcs ==
    /\ polling_active = [p \in Procs |-> FALSE]
    /\ polling_thread = [p \in Procs |-> 0]
    /\ active_threads = [p \in Procs |-> {}]
    /\ controller_ip = [p \in Procs |-> FALSE]
    /\ req = [p \in Procs |-> "idle"]
    /\ booted = [p \in Procs |-> FALSE]
    /\ rounds = [w \in Workers |-> 0]
    /\ wasRunning = [p \in Procs |-> FALSE]

Init ==
    /\ InitLock
    /\ InitSendIdle
    /\ InitEntryIdle
    /\ InitProcs
    /\ pc = [w \in Workers |-> "unborn"]
    /\ InitEvalIdle
    /\ InitPollIdle
    /\ InitNotifIdle
    /\ InitCycIdle
    /\ InitRulesIdle

WorkerStep(w) ==
    \/ AcquireOpen(w)
    \/ AcquireFlock(w)
    \/ CheckActive(w)
    \/ Register(w)
    \/ LoopTop(w)
    \/ Cycle(w)
    \/ Wake(w)
    \/ Cleanup(w)
    \/ ReleaseUnlock(w)
    \/ ReleaseClose(w)
    \/ ReleaseRemove(w)

Next ==
    \/ \E w \in Workers : WorkerStep(w)
    \/ \E p \in Procs, viaMain \in BOOLEAN, ip \in BOOLEAN : Boot(p, viaMain, ip)
    \/ \E p \in Procs, ip \in BOOLEAN : SaveConfigBegin(p, ip)
    \/ \E p \in Procs, timedOut \in BOOLEAN : SaveConfigFinish(p, timedOut)

vars == <<schedVars, evalVars, pollVars, notifVars, cycVars, ruleVars, recVars, sendVars, entryVars>>

Spec == Init /\ [][Next]_vars

\* Every started thread keeps running (a sleep returns, a statement is
\* executed), and a join returns once the thread ended or 5 seconds passed.
Fairness ==
    /\ \A w \in Workers : WF_vars(WorkerStep(w))
    /\ \A p \in Procs : WF_vars(\E timedOut \in BOOLEAN : SaveConfigFinish(p, timedOut))

FairSpec == Spec /\ Fairness

\* --------------------------------------------------------------- SpecEval
InitEval ==
    /\ InitLock
    /\ InitSendIdle
    /\ InitEntryIdle
    /\ InitProcs
    /\ pc = [w \in Workers |-> "unborn"]
    /\ InitPollIdle
    /\ InitNotifIdle
    /\ InitCycIdle
    /\ alert_settings \in [RuleKeys -> Rules \cup {None}]
    /\ evStatus = "start"
    /\ evPool = None
    /\ evRow = None
    /\ lastAlerts = <<>>
    /\ InitRulesIdle

NextEval ==
    \/ EvalBegin
    \/ \E name \in PoolNames : EvalNextPool(name)
    \/ \E row \in Rows : EvalRow(row)
    \/ EvalPoolEnd
    \/ EvalEnd

SpecEval == InitEval /\ [][NextEval]_vars

\* --------------------------------------------------------------- SpecPoll
\* The worker of process PollProc has the lock and is at the top of its loop;
\* the configuration on disk is any.
InitPoll ==
    /\ InitLock
    /\ InitSendIdle
    /\ InitEntryIdle
    /\ polling_active = [p \in Procs |-> p = PollProc]
    /\ polling_thread = [p \in Procs |-> 0]
    /\ active_threads = [p \in Procs |-> {}]
    /\ controller_ip = [p \in Procs |-> FALSE]
    /\ req = [p \in Procs |-> "idle"]
    /\ booted = [p \in Procs |-> p = PollProc]
    /\ rounds = [w \in Workers |-> 0]
    /\ wasRunning = [p \in Procs |-> FALSE]
    /\ pc = [w \in Workers |-> "unborn"]
    /\ InitEvalIdle
    /\ config_data \in [controller_ip : BOOLEAN, username : BOOLEAN, password : BOOLEAN,
                        polling_interval : Intervals]
    /\ license_data = EmptyData
    /\ pollPc = "loop_top"
    /\ pollResult = None
    /\ sleepSecs = 0
    /\ cycleOutcome = "none"
    /\ refPc = "idle"
    /\ refResult = None
    /\ refResponse = "none"
    /\ fetchSeq = 0
    /\ lastOk = EmptyData
    /\ overlapped = FALSE
    /\ records = {}
    /\ unwritten = {}
    /\ InitNotifIdle
    /\ InitCycIdle
    /\ InitRulesIdle

NextPoll ==
    \/ PollLoopTop
    \/ \E login \in LoginOutcomes, usage, summary \in CommandOutcomes :
          PollFetch(login, usage, summary)
    \/ PollAssign
    \/ \E written \in BOOLEAN : PollPersist(written)
    \/ PollEvaluate
    \/ PollEnterSleep
    \/ PollWake
    \/ \E keyError \in BOOLEAN : RefBegin(keyError)
    \/ \E login \in LoginOutcomes, usage, summary \in CommandOutcomes :
          RefFetch(login, usage, summary)
    \/ RefAssign

SpecPoll == InitPoll /\ [][NextPoll]_vars

\* -------------------------------------------------------------- SpecCycle
\* The worker has the lock and is at the top of its loop with the flag set;
\* the configuration was loaded from disk (any notification flags, the
\* notification manager not configured yet); save_config_api may replace it.
InitCycle ==
    /\ InitLock
    /\ InitSendIdle
    /\ InitEntryIdle
    /\ InitProcs
    /\ pc = [w \in Workers |-> "unborn"]
    /\ InitEvalIdle
    /\ InitPollIdle
    /\ InitRulesIdle
    /\ smtp_enabled \in BOOLEAN
    /\ syslog_enabled \in BOOLEAN
    /\ enable_notifications \in BOOLEAN
    /\ smtp_to = <<"a", ",", "b">>
    /\ smtp_config = None
    /\ syslog_config = None
    /\ sent = <<>>
    /\ cfgVersion = 1
    /\ args = NoArgs
    /\ cycPc = "top"
    /\ answers = NoAnswers
    /\ events = <<>>
    /\ cycResult = None
    /\ cycles = 0

NextCycle ==
    \/ CycLoopTop
    \/ CycArgIp
    \/ CycArgUser
    \/ CycArgPass
    \/ \E login \in LoginOutcomes : CycLogin(login)
    \/ \E usage \in CommandOutcomes : CycUsage(usage)
    \/ \E summary \in CommandOutcomes : CycSummary(summary)
    \/ \E logout \in CommandOutcomes : CycLogout(logout)
    \/ CycReturn
    \/ CycAssign
    \/ \E written \in BOOLEAN : CycPersist(written)
    \/ \E alert_type \in {"none", "email", "syslog"} : CycAlerts(alert_type)
    \/ CycNotify
    \/ CycWake
    \/ \E se, sy, en \in BOOLEAN : CycSaveConfig(se, sy, en)

SpecCycle == InitCycle /\ [][NextCycle]_vars

\* ----------------------------------------------------------- SpecRegistry
\* The scheduler of Spec seen from one process: process PollProc boots either
\* way, takes save_config_api requests and runs all its threads; every other
\* process on the host boots through __main__ with a controller configured and
\* runs the poller it starts there.
NextRegistry ==
    \/ \E k \in 1..MaxThreads : WorkerStep(<<PollProc, k>>)
    \/ \E viaMain \in BOOLEAN, ip \in BOOLEAN : Boot(PollProc, viaMain, ip)
    \/ \E ip \in BOOLEAN : SaveConfigBegin(PollProc, ip)
    \/ \E timedOut \in BOOLEAN : SaveConfigFinish(PollProc, timedOut)
    \/ \E q \in Procs \ {PollProc} : Boot(q, TRUE, TRUE)
    \/ \E q \in Procs \ {PollProc} : WorkerStep(<<q, 1>>)

SpecRegistry == Init /\ [][NextRegistry]_vars

\* --------------------------------------------------------------- SpecLoop
\* The iterations of SpecCycle with the run flag: the loop tests the flag at
\* the top of every iteration and another thread may clear it at any moment.
\* The worker thread is scheduled again and again and both sleeps return, so
\* its steps are weakly fair; the request that clears the flag may never come.
InitLoop ==
    /\ InitLock
    /\ InitSendIdle
    /\ InitEntryIdle
    /\ polling_active = [p \in Procs |-> p = PollProc]
    /\ polling_thread = [p \in Procs |-> 0]
    /\ active_threads = [p \in Procs |-> {}]
    /\ controller_ip = [p \in Procs |-> FALSE]
    /\ req = [p \in Procs |-> "idle"]
    /\ booted = [p \in Procs |-> FALSE]
    /\ rounds = [w \in Workers |-> 0]
    /\ wasRunning = [p \in Procs |-> FALSE]
    /\ pc = [w \in Workers |-> "unborn"]
    /\ InitEvalIdle
    /\ InitPollIdle
    /\ InitRulesIdle
    /\ smtp_enabled \in BOOLEAN
    /\ syslog_enabled \in BOOLEAN
    /\ enable_notifications \in BOOLEAN
    /\ smtp_to = <<"a", ",", "b">>
    /\ smtp_config = None
    /\ syslog_config = None
    /\ sent = <<>>
    /\ cfgVersion = 1
    /\ args = NoArgs
    /\ cycPc = "top"
    /\ answers = NoAnswers
    /\ events = <<>>
    /\ cycResult = None
    /\ cycles = 0

LoopThreadStep ==
    \/ CycLoopEnter
    \/ CycLoopExit
    \/ CycArgIp
    \/ CycArgUser
    \/ CycArgPass
    \/ \E login \in LoginOutcomes : CycLogin(login)
    \/ \E usage \in CommandOutcomes : CycUsage(usage)
    \/ \E summary \in CommandOutcomes : CycSummary(summary)
    \/ \E logout \in CommandOutcomes : CycLogout(logout)
    \/ CycReturn
    \/ CycAssign
    \/ \E written \in BOOLEAN : CycPersist(written)
    \/ \E alert_type \in {"none", "email", "syslog"} : CycAlerts(alert_type)
    \/ CycNotify
    \/ CycWake

NextLoop ==
    \/ LoopThreadStep
    \/ CycStop

SpecLoop == InitLoop /\ [][NextLoop]_vars /\ WF_vars(LoopThreadStep)

\* ------------------------------------------------------------- SpecNotify
\* The send sites and save_config_api of one process whose configuration was
\* loaded from disk: any notification flags and to-address field, the
\* notification manager created without settings.
nonNotifVars == <<schedVars, evalVars, pollVars, cycVars, ruleVars, recVars, sendVars, entryVars>>

\* arguments of send_notifications: snapshots as get_license_usage builds
\* them, and documents that carry a "_data" list
ReportInputs ==
    {Snapshot(1, TRUE), Snapshot(1, FALSE),
     [_data |-> <<>>], [_data |-> <<[License |-> 1]>>], [_data |-> <<[Other |-> 1]>>]}

\* POST /api/config, as far as the notification settings go
NtSaveConfig(se, sy, en, to) ==
    /\ ApplyNotifConfig(se, sy, en, to)
    /\ UNCHANGED sent
    /\ UNCHANGED nonNotifVars

\* check_license_alerts calls send_alert_notification for a row above its rule
NtAlert(alert_type) ==
    /\ SendAlertNotification(alert_type)
    /\ UNCHANGED <<smtp_enabled, syslog_enabled, enable_notifications, smtp_to>>
    /\ UNCHANGED nonNotifVars

\* POST /api/send-alert: without one of hostname, ap_value, threshold and
\* alert_type an error response, else the statements of send_alert_notification
NtManualAlert(complete, alert_type) ==
    /\ IF complete
       THEN SendAlertNotification(alert_type)
       ELSE sent' = <<>> /\ UNCHANGED <<smtp_config, syslog_config>>
    /\ UNCHANGED <<smtp_enabled, syslog_enabled, enable_notifications, smtp_to>>
    /\ UNCHANGED nonNotifVars

\* send_notifications(data)
NtReport(data) ==
    /\ SendNotifications(data)
    /\ UNCHANGED <<smtp_enabled, syslog_enabled, enable_notifications, smtp_to>>
    /\ UNCHANGED nonNotifVars

InitNotify ==
    /\ InitLock
    /\ InitSendIdle
    /\ InitEntryIdle
    /\ InitProcs
    /\ pc = [w \in Workers |-> "unborn"]
    /\ InitEvalIdle
    /\ InitPollIdle
    /\ InitCycIdle
    /\ InitRulesIdle
    /\ smtp_enabled \in BOOLEAN
    /\ syslog_enabled \in BOOLEAN
    /\ enable_notifications \in BOOLEAN
    /\ smtp_to \in ToFields
    /\ smtp_config = None
    /\ syslog_config = None
    /\ sent = <<>>

NextNotify ==
    \/ \E se, sy, en \in BOOLEAN, to \in ToFields : NtSaveConfig(se, sy, en, to)
    \/ \E alert_type \in {"email", "syslog"} : NtAlert(alert_type)
    \/ \E complete \in BOOLEAN, alert_type \in {"email", "syslog", "sms"} :
          NtManualAlert(complete, alert_type)
    \/ \E data \in ReportInputs : NtReport(data)

SpecNotify == InitNotify /\ [][NextNotify]_vars

\* -------------------------------------------------------------- SpecEntry
\* One successful fetch, for any controller response and rule mapping,
\* evaluated by the poll cycle or by the manual refresh.
InitEntry ==
    /\ InitLock
    /\ InitSendIdle
    /\ InitProcs
    /\ pc = [w \in Workers |-> "unborn"]
    /\ InitPollIdle
    /\ InitNotifIdle
    /\ InitCycIdle
    /\ alert_settings \in [RuleKeys -> Rules \cup {None}]
    /\ evStatus = "returned"
    /\ evPool = None
    /\ evRow = None
    /\ lastAlerts = <<>>
    /\ InitRulesIdle
    /\ entryResponse \in EntryResponses
    /\ entryBy = "none"
    /\ entryAlerts = <<>>

NextEntry ==
    \/ EntryPoll
    \/ EntryRefresh

SpecEntry == InitEntry /\ [][NextEntry]_vars

\* --------------------------------------------------------------- SpecSend
\* One call of send_email or of send_syslog, with or without settings, for
\* every way the server or socket calls can end.
InitSend ==
    /\ InitLock
    /\ InitSendIdle
    /\ InitEntryIdle
    /\ InitProcs
    /\ pc = [w \in Workers |-> "unborn"]
    /\ InitEvalIdle
    /\ InitPollIdle
    /\ InitNotifIdle
    /\ InitCycIdle
    /\ InitRulesIdle

NextSend ==
    \/ \E configured \in BOOLEAN, port \in {465, 587},
          outcome \in [EmailStepNames -> StepOutcomes] :
          CallSendEmail(configured, port, outcome)
    \/ \E configured \in BOOLEAN, outcome \in [SyslogStepNames -> StepOutcomes] :
          CallSendSyslog(configured, outcome)

SpecSend == InitSend /\ [][NextSend]_vars

\* -------------------------------------------------------------- SpecRules
\* Save-rule and apply-configuration requests, one after the other, on a
\* configuration loaded from disk: without the alert_settings key, or with any
\* mapping under it.
InitRules ==
    /\ InitLock
    /\ InitSendIdle
    /\ InitEntryIdle
    /\ InitProcs
    /\ pc = [w \in Workers |-> "unborn"]
    /\ InitPollIdle
    /\ InitNotifIdle
    /\ InitCycIdle
    /\ hasAlertKey \in BOOLEAN
    /\ alert_settings \in (IF hasAlertKey THEN [RuleKeys -> Rules \cup {None}] ELSE {NoRules})
    /\ evStatus = "returned"
    /\ evPool = None
    /\ evRow = None
    /\ lastAlerts = <<>>
    /\ lastOp = "none"
    /\ rulesBefore = None

NextRules ==
    \/ \E hostname \in RuleKeys \cup {""}, threshold \in ThresholdInputs,
          email_on, syslog_on \in BOOLEAN :
          SaveAlertSettings(hostname, threshold, email_on, syslog_on)
    \/ \E parsed \in BOOLEAN : SaveConfigRules(parsed)

SpecRules == InitRules /\ [][NextRules]_vars

\* --------------------------------------------------------------- SpecLock
\* Independent execution contexts (the first thread of every process) that do
\* nothing but acquire_polling_lock() and, holding a handle,
\* release_polling_lock(handle), at most MaxRounds acquires each.
LockCtx == {w \in Workers : w[2] = 1}

LkOpen(c) ==
    /\ pc[c] = "l_idle"
    /\ rounds[c] < MaxRounds
    /\ OpenLockFile(c)
    /\ UNCHANGED flock
    /\ pc' = [pc EXCEPT ![c] = "l_flock"]
    /\ rounds' = [rounds EXCEPT ![c] = @ + 1]
    /\ UNCHANGED <<procVars, req, booted, wasRunning>>
    /\ UNCHANGED nonSchedVars

LkFlock(c) ==
    /\ pc[c] = "l_flock"
    /\ IF FlockFree(c)
       THEN FlockTake(c) /\ pc' = [pc EXCEPT ![c] = "l_held"]
       ELSE FlockBusy(c) /\ pc' = [pc EXCEPT ![c] = "l_idle"]
    /\ UNCHANGED <<procVars, req, booted, rounds, wasRunning>>
    /\ UNCHANGED nonSchedVars

LkUnlock(c) ==
    /\ pc[c] = "l_held"
    /\ Unlock(c)
    /\ pc' = [pc EXCEPT ![c] = "l_close"]
    /\ UNCHANGED <<procVars, req, booted, rounds, wasRunning>>
    /\ UNCHANGED nonSchedVars

LkClose(c) ==
    /\ pc[c] = "l_close"
    /\ CloseLockFile(c)
    /\ pc' = [pc EXCEPT ![c] = "l_remove"]
    /\ UNCHANGED <<procVars, req, booted, rounds, wasRunning>>
    /\ UNCHANGED nonSchedVars

LkRemove(c) ==
    /\ pc[c] = "l_remove"
    /\ IF lockPath # NoFile THEN RemoveLockPath ELSE UNCHANGED lockVars
    /\ pc' = [pc EXCEPT ![c] = "l_idle"]
    /\ UNCHANGED <<procVars, req, booted, rounds, wasRunning>>
    /\ UNCHANGED nonSchedVars

\* release_polling_lock(None) by a context that has no handle
LkReleaseNone(c) ==
    /\ pc[c] = "l_idle"
    /\ rounds[c] < MaxRounds
    /\ rounds' = [rounds EXCEPT ![c] = @ + 1]
    /\ IF ReleaseRuns(fd[c]) THEN ReleaseAll(c) ELSE UNCHANGED lockVars
    /\ UNCHANGED <<procVars, pc, req, booted, wasRunning>>
    /\ UNCHANGED nonSchedVars

InitLk ==
    /\ InitLock
    /\ InitSendIdle
    /\ InitEntryIdle
    /\ InitProcs
    /\ pc = [w \in Workers |-> IF w \in LockCtx THEN "l_idle" ELSE "unborn"]
    /\ InitEvalIdle
    /\ InitPollIdle
    /\ InitNotifIdle
    /\ InitCycIdle
    /\ InitRulesIdle

NextLk ==
    \E c \in LockCtx :
        \/ LkOpen(c)
        \/ LkFlock(c)
        \/ LkUnlock(c)
        \/ LkClose(c)
        \/ LkRemove(c)
        \/ LkReleaseNone(c)

SpecLock == InitLk /\ [][NextLk]_vars

\* ----------------------------------------------------------------- claims
Running(p) == {w \in Workers : w[1] = p /\ InLoop(w)}

\* C1: on one host, over all threads of all processes, at most one polling
\* loop is inside its running loop while holding the singleton lock.
C1_AtMostOneLoopHoldsLock ==
    Cardinality({w \in Workers : InLoop(w) /\ HoldsLock(w)}) <= 1

\* The restart sequence of save_config_api is over in process p and every
\* thread it started has either entered the loop or returned.
Settled(p) ==
    /\ req[p] = "idle"
    /\ \A k \in 1..MaxThreads : pc[<<p, k>>] \in {"unborn", "exited", "cycle", "sleep"}

\* C2: after save_config_api has replaced the configuration while a loop was
\* running and its stop / join / restart sequence is over, exactly one polling
\* loop runs in the process.
C2_ExactlyOneLoopAfterRestart ==
    \A p \in Procs :
        (wasRunning[p] /\ Settled(p)) => Cardinality(Running(p)) = 1

\* C3: while a polling loop of one process holds the lock, no polling loop
\* runs in another process, and the marker file of a process that started a
\* single poller stays in place while that poller runs.
C3_BusyStartIsNoOp ==
    \A w \in Workers :
        (InLoop(w) /\ HoldsLock(w)) =>
            /\ \A v \in Workers : v[1] # w[1] => ~InLoop(v)
            /\ (polling_thread[w[1]] = 1 /\ req[w[1]] = "idle") => lockPath = fd[w]

\* C4: no interleaving of acquires and releases lets two contexts hold a
\* LockHandle at the same time.
C4_OneHandleAtATime ==
    Cardinality({c \in LockCtx : HoldsLock(c)}) <= 1

\* number of notification calls of one channel made for the last row
AlertCount(type) ==
    Cardinality({i \in 1..Len(lastAlerts) : lastAlerts[i].alert_type = type})

\* the last row's usage exceeds the positive threshold of an existing rule
LastRowBreaches ==
    /\ evRow # None
    /\ evRow.Hostname \in DOMAIN alert_settings
    /\ alert_settings[evRow.Hostname] # None
    /\ alert_settings[evRow.Hostname].threshold > 0
    /\ PyInt(evRow.AP).ok
    /\ PyInt(evRow.AP).val > alert_settings[evRow.Hostname].threshold

\* C5: an alert is emitted for a row only if a rule exists for its entity, the
\* rule's threshold is positive and the usage is strictly above the threshold;
\* threshold 0, usage equal to the threshold or no rule give no alert.
C5_AlertOnlyAboveThreshold ==
    lastAlerts # <<>> =>
        /\ LastRowBreaches
        /\ \A i \in 1..Len(lastAlerts) :
              /\ lastAlerts[i].Hostname = evRow.Hostname
              /\ lastAlerts[i].threshold = alert_settings[evRow.Hostname].threshold
              /\ lastAlerts[i].ap_value = PyInt(evRow.AP).val

C5_Witness ==
    /\ lastAlerts # <<>>
    /\ evRow.Hostname = "ap-01"
    /\ alert_settings["ap-01"].threshold = 1
    /\ evRow.AP = Str(<<"2">>)

\* C6: a row the evaluator handles whose usage exceeds its positive threshold
\* gives exactly one alert per channel enabled in the rule, none for a
\* disabled channel, and no channel twice.
C6_OneAlertPerEnabledChannel ==
    (LastRowBreaches /\ evRow.Hostname \notin {"", "TOTAL"}) =>
        LET rule == alert_settings[evRow.Hostname]
        IN  /\ AlertCount("email") = (IF rule.email_enabled THEN 1 ELSE 0)
            /\ AlertCount("syslog") = (IF rule.syslog_enabled THEN 1 ELSE 0)
            /\ Len(lastAlerts) = AlertCount("email") + AlertCount("syslog")

C6_Witness ==
    /\ LastRowBreaches
    /\ evRow.Hostname = "ap-01"
    /\ alert_settings["ap-01"].email_enabled
    /\ alert_settings["ap-01"].syslog_enabled
    /\ Len(lastAlerts) = 2

\* C7: a TOTAL row or a row without entity identifier never gives an alert,
\* also with a rule keyed TOTAL, and every alert comes from a pool whose name
\* starts with the per-entity usage prefix.
C7_TotalAndAnonymousNeverAlert ==
    /\ (evRow # None /\ evRow.Hostname \in {"", "TOTAL"}) => lastAlerts = <<>>
    /\ \A i \in 1..Len(lastAlerts) :
          /\ Len(lastAlerts[i].pool) > Len(PoolPrefix)
          /\ \A k \in 1..Len(PoolPrefix) : lastAlerts[i].pool[k] = PoolPrefix[k]

C7_Witness ==
    /\ evRow # None
    /\ evRow.Hostname = "TOTAL"
    /\ alert_settings["TOTAL"] # None
    /\ alert_settings["TOTAL"].threshold = 1
    /\ alert_settings["TOTAL"].email_enabled
    /\ evRow.AP = Str(<<"1", "2">>)
    /\ evStatus = "rows"
    /\ lastAlerts = <<>>

\* C8: a row whose usage value cannot be parsed counts as usage 0 and does not
\* end the evaluation: the evaluator goes on with the rows after it.
C8_MalformedRowDoesNotAbort ==
    (evRow # None /\ evRow.Hostname \notin {"", "TOTAL"} /\ ~PyInt(evRow.AP).ok) =>
        evStatus # "aborted"

\* C9: after a cycle that failed because the controller interaction failed
\* (login refused, transport error, usage command error) the worker sleeps the
\* 60-second retry delay.
C9_FailedCycleWaitsRetryDelay ==
    (pollPc = "sleep" /\ cycleOutcome = "fetch_failed") => sleepSecs = RetryDelay

\* C10: a failed cycle or refresh leaves the snapshot as it is; with cycles
\* and refreshes that follow one another, the snapshot served is the one of
\* the most recent successful fetch, the empty one when none succeeded.
C10_FailureKeepsSnapshot ==
    /\ (PendingOk = {} /\ ~overlapped) => license_data = lastOk
    /\ (PendingOk = {} /\ lastOk # EmptyData) =>
          (license_data # EmptyData /\ license_data.license_usage \in 1..fetchSeq)

C10_Witness ==
    /\ lastOk # EmptyData
    /\ lastOk.license_usage < fetchSeq
    /\ ~overlapped
    /\ cycleOutcome = "fetch_failed"
    /\ refResponse = "error"
    /\ pollPc = "sleep"
    /\ refPc = "idle"
    /\ license_data = lastOk

\* C11: under every interleaving of a poll cycle with a manual refresh the
\* snapshot served is the most recently completed one: a store never replaces
\* the snapshot of a later completed fetch by the one of an earlier fetch.
C11_NewerSnapshotNeverReplaced ==
    [][license_data'.license_usage >= license_data.license_usage]_vars

\* C12: the controller address, username and password passed to one
\* get_license_usage call of the worker all come from the same configuration
\* object, also when save_config_api replaces the configuration meanwhile.
C12_ArgsFromOneConfig ==
    cycPc = "login" =>
        /\ args.controller_ip = args.username
        /\ args.username = args.password

\* positions of an event in the record of the current iteration
EventAt(e) == {i \in 1..Len(events) : events[i] = e}
CommandAt == EventAt("usage") \cup EventAt("summary")

\* C13: within one iteration the login precedes every command, every command
\* precedes the logout, and the alert evaluation and the report dispatch
\* come only after the snapshot record of that iteration has been written.
C13_CycleOrder ==
    /\ Cardinality(EventAt("login")) <= 1
    /\ Cardinality(EventAt("logout")) <= 1
    /\ \A i \in CommandAt : \E j \in EventAt("login") : j < i
    /\ \A i \in EventAt("logout") :
          /\ \E j \in EventAt("login") : j < i
          /\ \A j \in CommandAt : j < i
    /\ \A i \in EventAt("alerts") \cup EventAt("notify") :
          \E j \in EventAt("persist") : j < i

C13_Witness ==
    events = <<"login", "usage", "summary", "logout", "store", "persist", "alerts", "notify">>

\* a report was handed to the channel and a delivery attempted
ReportSentOn(log, channel) ==
    \E i \in 1..Len(log) :
        log[i].channel = channel /\ log[i].kind = "report" /\ log[i].attempted

\* C14: at the end of a successful iteration with notifications enabled and
\* a non-empty license summary in the snapshot, a usage report is sent on every
\* channel that is enabled and configured.
C14_ReportSentAfterSuccessfulCycle ==
    [][(/\ cycPc = "notify"
        /\ cycPc' = "sleep"
        /\ enable_notifications
        /\ license_data.license_summary # 0) =>
            /\ (smtp_enabled /\ smtp_config # None) => ReportSentOn(sent', "email")
            /\ (syslog_enabled /\ syslog_config # None) => ReportSentOn(sent', "syslog")]_vars

C16_RecipientsSplitAndTrimmed ==
    [][smtp_config' # smtp_config =>
          smtp_config'.to_emails = SplitAndTrim(smtp_to')]_vars

\* C17: an apply-configuration request leaves the rule mapping as it found
\* it: every rule is still there with the same threshold and channel flags,
\* and none is added, whatever save-rule and apply requests came before.
C17_ApplyKeepsRules ==
    lastOp = "apply" =>
        /\ alert_settings = rulesBefore.settings
        /\ hasAlertKey = rulesBefore.hasKey

C17_Witness ==
    /\ lastOp = "apply"
    /\ rulesBefore.settings["ap-01"] # None
    /\ alert_settings["ap-01"] = [threshold |-> 2, email_enabled |-> TRUE, syslog_enabled |-> FALSE]
    /\ alert_settings["TOTAL"] = None

\* C18: a loop that is running when save_config_api clears the flag and
\* waits for it eventually sees the stop signal: it leaves its loop,
\* deregisters and releases its lock, whether or not a new loop was started.
C18_StoppedLoopExits ==
    \A w \in Workers :
        (req[w[1]] = "join" /\ polling_thread[w[1]] = w[2] /\ InLoop(w))
            ~> (pc[w] = "exited")

\* C19: release without a handle changes neither the lock ownership nor the
\* marker file, also while another context holds the lock; release with a
\* handle ends with the lock given up, the file closed and the marker removed.
C19_ReleaseWithoutHandleIsNoOp ==
    [][\A c \in LockCtx :
          /\ (pc[c] = "l_idle" /\ pc'[c] = "l_idle" /\ rounds'[c] # rounds[c])
                => UNCHANGED lockVars
          /\ (pc[c] = "l_remove" /\ pc'[c] = "l_idle")
                => (lockPath' = NoFile /\ fd'[c] = NoFile /\ \A i \in Inodes : flock'[i] # c)]_vars

\* a context released without a handle while the other one holds the lock:
\* the marker is in place with the owner's pid (a failed acquire would have
\* truncated it)
C19_Witness ==
    \E c, o \in LockCtx :
        /\ c # o
        /\ pc[c] = "l_idle"
        /\ rounds[c] > 0
        /\ rounds[o] = 1
        /\ HoldsLock(o)
        /\ lockPath = fd[o]
        /\ fileText[lockPath] = o[1]

\* the iteration in which login and `show license-usage` succeeded and
\* `show license summary` failed
SummaryFailed ==
    /\ answers.login = "success"
    /\ answers.usage = "success"
    /\ answers.summary = "error"

\* C20: when only the summary command fails, the session is still logged
\* out, the fetch succeeds with the usage data and an empty summary, that
\* snapshot becomes the current one, and once its record is written it is
\* evaluated for alerts.
C20_SummaryFailureDegrades ==
    SummaryFailed =>
        /\ cycPc \notin {"logout"} => EventAt("logout") # {}
        /\ cycPc \notin {"logout", "return"} =>
              cycResult = [status |-> "success", data |-> Snapshot(cycles, FALSE)]
        /\ cycPc \notin {"logout", "return", "assign"} =>
              license_data = Snapshot(cycles, FALSE)
        /\ (cycPc \in {"notify", "sleep", "top"} /\ EventAt("persist") # {}) =>
              EventAt("alerts") # {}

C20_Witness ==
    /\ SummaryFailed
    /\ cycPc = "sleep"
    /\ license_data = [license_usage |-> cycles, license_summary |-> 0]
    /\ EventAt("logout") # {}
    /\ EventAt("alerts") # {}

\* the fetch of the iteration succeeded and writing its record raised
WriteFailed ==
    /\ cycResult # None
    /\ cycResult.status = "success"
    /\ cycPc \notin {"assign", "persist"}
    /\ EventAt("persist") = {}

\* C21: when writing the record of a successfully fetched snapshot fails, the
\* snapshot is nevertheless the current one in memory, and the worker stays
\* in its loop: it sleeps and comes back to the top of the loop.
C21_WriteFailureKeepsSnapshotAndLoop ==
    WriteFailed =>
        /\ license_data = cycResult.data
        /\ cycPc \in {"sleep", "top"}

C21_Witness ==
    /\ WriteFailed
    /\ cycPc = "top"
    /\ cycles = 1
    /\ license_data = [license_usage |-> 1, license_summary |-> 1]

\* C22: every snapshot that is the current one, stored by a poll cycle or by
\* a manual refresh, has also been written to a record file, unless its write
\* failed (the worker may still be about to write).
C22_CurrentSnapshotHasRecord ==
    (license_data # EmptyData /\ pollPc # "persist" /\ license_data \notin unwritten)
        => license_data \in records

\* how often a step occurs in the calls made by the last send
TimesDone(step) == Cardinality({i \in 1..Len(sendOut.trace) : sendOut.trace[i] = step})

\* C23: send_email and send_syslog always return a boolean to their caller,
\* whatever the connection, login or datagram send does; they connect and
\* deliver at most once; True is returned only when every step went through;
\* without settings they return False without touching the network.
C23_SendReturnsBooleanOnce ==
    sendOut # None =>
        /\ sendOut.returned
        /\ sendOut.result \in BOOLEAN
        /\ \A step \in EmailStepNames \cup SyslogStepNames : TimesDone(step) <= 1
        /\ ~sendIn.configured => (~sendOut.result /\ sendOut.trace = <<>>)
        /\ sendOut.result <=>
              (/\ sendIn.configured
               /\ sendOut.trace # <<>>
               /\ \A i \in 1..Len(sendOut.trace) : sendIn.outcome[sendOut.trace[i]] = "ok")

C23_Witness ==
    /\ sendOut # None
    /\ sendIn.channel = "email"
    /\ sendIn.configured
    /\ sendIn.outcome["login"] = "os_error"
    /\ sendOut = [returned |-> TRUE, result |-> FALSE,
                  trace |-> <<"connect", "starttls", "login">>]

\* C24: no request stores a rule with a negative threshold: every rule a
\* step writes into the rule mapping has threshold >= 0, whatever threshold
\* the save-rule request carried.
C24_NoNegativeThresholdStored ==
    [][\A h \in RuleKeys :
          (alert_settings'[h] # None /\ alert_settings'[h] # alert_settings[h])
              => alert_settings'[h].threshold >= 0]_vars

\* the iteration in progress has failed: the controller answered with an
\* error, or the record could not be written; the thread is in the sleep that
\* ends the iteration
FailedCycle ==
    /\ cycPc = "sleep"
    /\ cycResult # None
    /\ (cycResult.status = "error" \/ WriteFailed)

\* C25: a failed iteration never ends the polling loop. While the run flag
\* stays set, the failed iteration number n is followed by iteration n + 1;
\* and the loop is only ever left from the test at the top of an iteration,
\* with the flag cleared.
C25_FailedCycleIsFollowedByNext ==
    /\ \A n \in 1..(MaxCycles - 1) :
          (FailedCycle /\ cycles = n) ~> (cycles = n + 1 \/ ~polling_active[PollProc])
    /\ [][(cycPc' = "exited" /\ cycPc # "exited")
              => (cycPc = "top" /\ ~polling_active[PollProc])]_vars

C25_Witness ==
    /\ cycles = 2
    /\ cycPc = "arg_ip"
    /\ polling_active[PollProc]
    /\ unwritten # {}
    /\ records = {}

\* C26: for the same controller response and the same rule mapping, a
\* successful manual refresh dispatches the alerts a poll cycle dispatches.
C26_RefreshAlertsEqualPollAlerts ==
    entryBy = "refresh" => entryAlerts = PollChecks(entryResponse)

\* get_license_usage of the current iteration has returned
Returned == cycResult # None

C28_RunningFlagMeansLoopAlive ==
    \A p \in Procs :
        (polling_active[p] /\ Settled(p)) => Running(p) # {}

\* C29: while a loop holds the lock, whatever acquires of other contexts have
\* failed in the meantime, the marker path names the file that loop has
\* locked and the file holds the process id its owner wrote.
C29_BusyAcquireLeavesMarker ==
    \A w \in Workers :
        (InLoop(w) /\ HoldsLock(w)) =>
            /\ lockPath = fd[w]
            /\ fileText[fd[w]] = w[1]

\* a step of one of the three send sites: an alert of the evaluator, a manual
\* send-alert request, a usage report
SendStep ==
    \/ \E alert_type \in {"email", "syslog"} : NtAlert(alert_type)
    \/ \E complete \in BOOLEAN, alert_type \in {"email", "syslog", "sms"} :
          NtManualAlert(complete, alert_type)
    \/ \E data \in ReportInputs : NtReport(data)

\* C30: at every send site nothing is handed to send_email while the
\* configuration has smtp_enabled off and nothing to send_syslog while it has
\* syslog_enabled off, whichever channel the caller asked for and whatever
\* settings the notification manager still holds.
C30_NoSendOnDisabledChannel ==
    [][SendStep =>
          \A i \in 1..Len(sent') :
              /\ sent'[i].channel = "email" => smtp_enabled
              /\ sent'[i].channel = "syslog" => syslog_enabled]_vars

C30_Witness ==
    /\ ~smtp_enabled
    /\ smtp_config # None
    /\ syslog_enabled
    /\ Len(sent) = 1
    /\ sent[1].channel = "syslog"
    /\ sent[1].kind = "report"
    /\ sent[1].attempted

\* the worker has registered and not yet deregistered: it is inside the
\* loop, or between the end of the loop and the discard that follows it
Registered(w) == InLoop(w) \/ pc[w] = "cleanup"

\* C31: in every process the registry of active loop identities holds
\* exactly the identities of its workers that entered the polling loop and
\* have not yet run the discard after it; a worker at the registration and
\* every registered worker holds the lock it acquired; and a worker that
\* finds its own identity in the registry goes on to release the lock,
\* leaving the registry as it is and not entering the loop.
C31_RegistryIsTheLoops ==
    /\ \A p \in Procs :
          active_threads[p] = {ThreadIdent(w) : w \in {v \in Workers : v[1] = p /\ Registered(v)}}
    /\ \A w \in Workers : (Registered(w) \/ pc[w] = "register") => HoldsLock(w)
    /\ \A thread_id \in 1..MaxThreads, registry \in SUBSET (1..MaxThreads) :
          thread_id \in registry =>
              /\ AfterRegister(thread_id, registry) = "rel_unlock"
              /\ RegistryAfter(thread_id, registry) = registry

C31_Witness ==
    \E p \in Procs :
        /\ active_threads[p] = {1, 2}
        /\ Blocked(<<p, 1>>)
        /\ Blocked(<<p, 2>>)

====
